---- MODULE Spec2Model ----
(***************************************************************************)
(* Model of scripts/scrape_songkick.py: one run of the scraper process,    *)
(* and of the function calculate_distance of scripts/amadeus_hotels.py.    *)
(*                                                                         *)
(* The coroutine scrape_songkick_events() runs under                       *)
(* asyncio.wait_for(..., timeout=120).  Every `await` of the coroutine is  *)
(* a control position (pc) at which the awaited call may return, raise, or *)
(* be cancelled by the global deadline; the synchronous code up to the     *)
(* next `await` belongs to the action that completes the call.             *)
(*                                                                         *)
(* Floats are fixed-point integers in thousandths (32.5 is 32500, 20 km is *)
(* 20000); NaN is a separate value whose comparisons are all false, as in  *)
(* Python.                                                                 *)
(***************************************************************************)
EXTENDS Integers, Sequences, FiniteSets, TLC

VARIABLES
    argv,          \* sys.argv[1:], the command-line strings
    pc,            \* control position of the process
    hotel_lat, hotel_lon, radius_km,   \* parsed query (lines 65-67)
    URL,           \* resolved navigation target (lines 77-101)
    ensureCalled,  \* ensure_playwright_browsers() has run (line 104)
    pwStarted,     \* async_playwright().__aenter__ has returned (line 108)
    i,             \* index of the launch configuration being tried (line 134)
    launchLog,     \* outcome of each launch attempt so far, in order
    browser,       \* the local `browser` (line 106): "None" or "Browser"
    pageCreated,   \* browser.new_page() has returned (line 155)
    navCalls,      \* number of page.goto() calls started (line 196)
    navResult,     \* how the navigation try-block ended (lines 193-213)
    selIdx,        \* index of the selector being waited for (line 225)
    selWaits,      \* number of page.wait_for_selector() calls started
    found,         \* the flag eventos_encontrados of line 216
    contentCalls,  \* number of page.content() calls started
    html,          \* the local `html` (lines 246, 273)
    validation,    \* verdict of the checks of lines 250-263 on the first fetch
    pending,       \* how control is leaving the try/with blocks
    closeCalls,    \* number of browser.close() calls started
    cancelled,     \* the 120 s deadline of line 405 has fired
    parsed,        \* BeautifulSoup(html) has been built (line 299)
    extracted,     \* the extraction loop of lines 333-388 has run
    eventos,       \* the list `eventos` (line 331)
    stdout,        \* lines written to standard output, in order
    exitStatus,    \* process exit status; -1 while the process runs
    coords,        \* arguments of a call of amadeus_hotels.calculate_distance
    distance       \* what that call returned or raised

qvars == <<hotel_lat, hotel_lon, radius_km, URL, ensureCalled>>
lvars == <<pwStarted, i, launchLog, browser, pageCreated>>
nvars == <<navCalls, navResult, selIdx, selWaits, found>>
cvars == <<contentCalls, html, validation>>
xvars == <<parsed, extracted, eventos>>
uvars == <<coords, distance>>
vars == <<argv, pc, qvars, lvars, nvars, cvars, xvars,
          pending, closeCalls, cancelled, stdout, exitStatus, uvars>>

---------------------------------------------------------------------------
(* Bounds of the model. *)

MaxElems == 2        \* listing elements per fetched page

---------------------------------------------------------------------------
(* Python floats. *)

NaN == 2000000000    \* float("nan"); never the value of a modelled number
None == 2000000001   \* Python None where a float is expected

\* x > y and x < y on floats: false whenever an operand is NaN.
FGt(x, y) == x # NaN /\ y # NaN /\ x > y
FLt(x, y) == x # NaN /\ y # NaN /\ x < y

\* Truth value of a float in `if x`: only 0.0 is false; NaN is true.
Truthy(x) == x # 0

\* float(s) on the command-line strings of the model: the strings it accepts
\* and their values.  float() accepts "nan"; it raises ValueError on the rest.
FloatTable ==
    ("32.5" :> 32500) @@ ("32.0" :> 32000) @@ ("33.0" :> 33000) @@
    ("25.5" :> 25500) @@ ("25.0" :> 25000) @@ ("20.5" :> 20500) @@
    ("20.0" :> 20000) @@ ("19.4" :> 19400) @@ ("19.0" :> 19000) @@
    ("48.8" :> 48800) @@ ("0" :> 0) @@
    ("-117.0" :> -117000) @@ ("-99.1" :> -99100) @@ ("-118.0" :> -118000) @@
    ("-86.0" :> -86000) @@ ("2.3" :> 2300) @@
    ("20" :> 20000) @@ ("30" :> 30000) @@ ("15" :> 15000) @@ ("10" :> 10000) @@
    ("nan" :> NaN)

ParsesAsFloat_NoCheck(s) == TRUE
ParsesAsFloat(s) == s \in DOMAIN FloatTable

FloatOf(s) == IF s \in DOMAIN FloatTable THEN FloatTable[s] ELSE 0

---------------------------------------------------------------------------
(* Target URL (lines 73-101). *)

NoURL == [kind |-> "none", city |-> "", lat |-> 0, lon |-> 0, radius |-> 0]
MetroURL(c) == [kind |-> "metro", city |-> c, lat |-> 0, lon |-> 0, radius |-> 0]
SearchURL(lat, lon, r) ==
    [kind |-> "search", city |-> "", lat |-> lat, lon |-> lon, radius |-> r]

\* Bounding box and latitude bands, in thousandths of a degree.
BOX_SOUTH == 19000
BOX_NORTH == 33000
BOX_WEST == -118000
BOX_EAST == -86000
BAND_TIJUANA == 32000
BAND_MONTERREY == 25000
BAND_GUADALAJARA == 20000

MetroFor_Inclusive(lat) ==
    IF ~FLt(lat, BAND_TIJUANA) THEN MetroURL("31097-mexico-tijuana")
    ELSE IF ~FLt(lat, BAND_MONTERREY) THEN MetroURL("31098-mexico-monterrey")
    ELSE IF ~FLt(lat, BAND_GUADALAJARA) THEN MetroURL("31099-mexico-guadalajara")
    ELSE MetroURL("31100-mexico-mexico-city")

\* Lines 82-93: the bands, tested top-down.
MetroFor(lat) ==
    IF FGt(lat, BAND_TIJUANA) THEN MetroURL("31097-mexico-tijuana")
    ELSE IF FGt(lat, BAND_MONTERREY) THEN MetroURL("31098-mexico-monterrey")
    ELSE IF FGt(lat, BAND_GUADALAJARA) THEN MetroURL("31099-mexico-guadalajara")
    ELSE MetroURL("31100-mexico-mexico-city")

\* Lines 77-101.
ResolveURL(lat, lon, r) ==
    IF Truthy(lat) /\ Truthy(lon)
    THEN IF FGt(lat, BOX_SOUTH) /\ FLt(lat, BOX_NORTH)
            /\ FGt(lon, BOX_WEST) /\ FLt(lon, BOX_EAST)
         THEN MetroFor(lat)
         ELSE SearchURL(lat, lon, r)
    ELSE MetroURL("31097-mexico-tijuana")

---------------------------------------------------------------------------
(* Fetched markup.  A page is its length, the phrases that occur in it (as *)
(* written, any case) and its elements in document order.                  *)

MIN_HTML_LEN == 1000

Denylist_WithBot == {"captcha", "access denied", "forbidden", "blocked", "bot"}
Denylist == {"captcha", "access denied", "forbidden", "blocked"}

\* str.lower() on the phrases of the model.
LowerTable ==
    ("CAPTCHA" :> "captcha") @@ ("Access Denied" :> "access denied") @@
    ("forbidden" :> "forbidden") @@ ("Blocked" :> "blocked") @@
    ("Robot" :> "robot")

\* The tracked substrings of a lower-case phrase ("robot" contains "bot").
SubstringsOf(p) == IF p = "robot" THEN {"robot", "bot"} ELSE {p}

\* `needle in html.lower()` (lines 259, 266).
ContainsLower(h, needle) ==
    \E p \in h.words : needle \in SubstringsOf(LowerTable[p])

\* Lines 250-263: verdict on the first fetch.
Validate(h) ==
    IF h.len < MIN_HTML_LEN THEN "small"
    ELSE IF \E w \in Denylist : ContainsLower(h, w) THEN "denied"
    ELSE "pass"

\* An attribute or descendant that may be missing: Absent, or Attr(text).
Absent == [has |-> FALSE, v |-> ""]
Attr(s) == [has |-> TRUE, v |-> s]

\* An element of the parsed markup.  tag is its name; cls, ucls and testid
\* are its attributes `class`, `class_` and `data-testid` ("" when the
\* attribute is missing); hasTime says whether a <time> descendant exists and
\* datetime is that descendant's attribute; title is the element's own
\* attribute; strong and venue are the texts of the first <strong> and
\* a.venue-link descendants; href is the href of the first a.event-link
\* descendant; lat and lon are the values at location.geo of the linked-data
\* block, None where the block or the path is missing.
Listing(lat, lon) ==
    [tag |-> "li", cls |-> "event-listings-element", ucls |-> "",
     testid |-> "", hasTime |-> TRUE, datetime |-> Attr("2024-05-17T20:00:00"),
     title |-> Absent, strong |-> Attr("Band"), venue |-> Attr("Venue"),
     href |-> Attr("/concerts/1"), lat |-> lat, lon |-> lon]

\* Elements of the model, around the query point (32.5, -117.0): listing
\* elements with no coordinates, 19.65 km north, 25.09 km north, and with a
\* latitude no point has; an element that is no listing (19.65 km north).
\* For the selector cascade: an element marked data-testid="event-item"
\* (25.09 km north), one with an attribute class_, and one whose class has
\* "event" in capitals.
NearElem == Listing(32677, -117000)

FooterElem ==
    [Listing(32677, -117000) EXCEPT !.tag = "div", !.cls = "footer"]

TestIdElem ==
    [Listing(32726, -117000) EXCEPT !.tag = "div", !.cls = "card",
                                    !.testid = "event-item"]

UnderscoreElem ==
    [Listing(32677, -117000) EXCEPT !.cls = "", !.ucls = "event"]

CardElem ==
    [Listing(32677, -117000) EXCEPT !.tag = "div", !.cls = "Event-Card"]

Elems ==
    { Listing(None, None),
      NearElem,
      Listing(32726, -117000),
      Listing(95000, -117000),
      FooterElem }

ElemSeqs == UNION { [1..n -> Elems] : n \in 0..MaxElems }

WordSets == { {}, {"CAPTCHA"}, {"Access Denied"}, {"forbidden"}, {"Blocked"},
              {"Robot"} }

\* What page.content() may return: plain pages with every sequence of
\* elements, and short or marked pages with one element in them.
Pages ==
    { [len |-> MIN_HTML_LEN, words |-> {}, elems |-> e] : e \in ElemSeqs }
    \cup
    { [len |-> l, words |-> w, elems |-> <<NearElem>>] :
        l \in {MIN_HTML_LEN - 1, MIN_HTML_LEN}, w \in WordSets }

NoPage == [len |-> 0, words |-> {}, elems |-> << >>]

---------------------------------------------------------------------------
(* Distance filter (lines 369-385).                                        *)

\* geopy's geodesic(...).kilometers, a library outside the repository.  It
\* takes float() of each coordinate, so a string that reads as a number is
\* accepted as that number and any other string raises ValueError; it raises
\* ValueError for a non-finite coordinate or a latitude outside [-90, 90];
\* otherwise the model takes 111 m per thousandth of a degree of latitude and
\* 94 m per thousandth of a degree of longitude, which orders the points of
\* the model as the library does.  Result in thousandths of km.
LAT_LIMIT == 90000
M_PER_MDEG_LAT == 111
M_PER_MDEG_LON == 94

\* Values json.loads may put at location.geo besides numbers and None: the
\* string "32.677" and the string "north".
JSON_STR_NUMERIC == 2000000004
JSON_STR_TEXT == 2000000005

\* float(x) inside geopy, for x a number or one of the two strings.
GeoFloat(x) == IF x = JSON_STR_NUMERIC THEN 32677 ELSE x

Abs(x) == IF x < 0 THEN -x ELSE x

Geodesic(lat1, lon1, lat2, lon2) ==
    IF \/ {NaN, JSON_STR_TEXT} \cap {lat1, lon1, lat2, lon2} # {}
       \/ Abs(GeoFloat(lat1)) > LAT_LIMIT \/ Abs(GeoFloat(lat2)) > LAT_LIMIT
    THEN [ok |-> FALSE, km |-> 0]
    ELSE [ok |-> TRUE,
          km |-> M_PER_MDEG_LAT * Abs(GeoFloat(lat1) - GeoFloat(lat2))
                 + M_PER_MDEG_LON * Abs(GeoFloat(lon1) - GeoFloat(lon2))]

\* round(distance, 2) on thousandths (no modelled distance is a tie).
Round2_OneDecimal(d) == ((d + 50) \div 100) * 100
Round2(d) == ((d + 5) \div 10) * 10

---------------------------------------------------------------------------
(* Locating the listing elements (lines 305-330).  The markup is the       *)
(* sequence of its elements in document order, which is the order          *)
(* find_all returns them in.                                               *)

\* Line 307: selectores_html.  find_all(tag, attrs) takes the keys of the
\* dictionary `attrs` as attribute names as they are written: only the
\* keyword argument class_ stands for the attribute `class`, so the key
\* "class_" of these dictionaries names an attribute called class_.
selectores_html ==
    << [tag |-> "li",      attr |-> "class_",      val |-> "event-listings-element"],
       [tag |-> "li",      attr |-> "class_",      val |-> "event"],
       [tag |-> "div",     attr |-> "class_",      val |-> "event-listings-element"],
       [tag |-> "div",     attr |-> "class_",      val |-> "event"],
       [tag |-> "article", attr |-> "class_",      val |-> "event"],
       [tag |-> "div",     attr |-> "data-testid", val |-> "event-item"],
       [tag |-> "li",      attr |-> "class_",      val |-> "event-item"] >>

\* The value of attribute a of element n ("" when n has no such attribute).
AttrOf(n, a) ==
    CASE a = "class_"      -> n.ucls
      [] a = "data-testid" -> n.testid
      [] a = "class"       -> n.cls

\* Line 318: element n is in soup.find_all(sel.tag, {sel.attr: sel.val}).
Matches(n, sel) == n.tag = sel.tag /\ AttrOf(n, sel.attr) = sel.val

\* str.lower() on the class names of the model.
ClassLowerTable ==
    ("event-listings-element" :> "event-listings-element") @@
    ("Event-Card" :> "event-card") @@ ("footer" :> "footer") @@
    ("card" :> "card")

\* `"event" in x` on the lower-case class names of the model.
HasEvent(x) == x \in {"event-listings-element", "event-card"}

\* Line 326: the lambda of the generic search, applied to the class of n.
GenericMatch_AnyClass(n) == n.cls # ""
GenericMatch(n) == n.cls # "" /\ HasEvent(ClassLowerTable[n.cls])

\* Lines 317-322: the matches of the first selector, from the k-th on, that
\* has any; the empty list when none has.
RECURSIVE FirstMatch(_, _)
FirstMatch(doc, k) ==
    IF k > Len(selectores_html) THEN << >>
    ELSE LET encontrados ==
                 SelectSeq(doc, LAMBDA n : Matches(n, selectores_html[k]))
         IN  IF encontrados # << >> THEN encontrados
             ELSE FirstMatch(doc, k + 1)

\* Lines 305-328: eventos_encontrados.
Locate_Union(doc) ==
    SelectSeq(doc, LAMBDA n :
        \/ \E k \in 1..Len(selectores_html) : Matches(n, selectores_html[k])
        \/ GenericMatch(n))
Locate(doc) ==
    IF FirstMatch(doc, 1) # << >> THEN FirstMatch(doc, 1)
    ELSE SelectSeq(doc, GenericMatch)

---------------------------------------------------------------------------
(* The loop body (lines 334-388).                                          *)

BASE_URL == "https://www.songkick.com"

\* get_text(strip=True) on the texts of the model.
TextTable ==
    ("Band" :> "Band") @@ (" Band\n" :> "Band") @@
    ("Venue" :> "Venue") @@ (" Venue " :> "Venue") @@ ("" :> "")

\* Lines 336-340: the date of element li.
Fecha_TitleFirst(li) ==
    LET fecha == IF li.title.has THEN li.title.v
                 ELSE IF li.hasTime /\ li.datetime.has THEN li.datetime.v
                 ELSE ""
    IN  IF Len(fecha) > 10 THEN SubSeq(fecha, 1, 10) ELSE fecha

Fecha(li) ==
    LET fecha == IF li.hasTime /\ li.datetime.has THEN li.datetime.v
                 ELSE IF li.title.has THEN li.title.v
                 ELSE ""
    IN  IF Len(fecha) > 10 THEN SubSeq(fecha, 1, 10) ELSE fecha

\* Lines 377-385: the dictionary appended for element li at distance d.
Record_English(li, d) ==
    [name        |-> IF li.strong.has THEN TextTable[li.strong.v] ELSE "",
     date        |-> Fecha(li),
     venue       |-> IF li.venue.has THEN TextTable[li.venue.v] ELSE "",
     link        |-> IF li.href.has THEN BASE_URL \o li.href.v ELSE "",
     latitude    |-> li.lat,
     longitude   |-> li.lon,
     distance_km |-> Round2(d)]
Record(li, d) ==
    [nombre      |-> IF li.strong.has THEN TextTable[li.strong.v] ELSE "",
     fecha       |-> Fecha(li),
     lugar       |-> IF li.venue.has THEN TextTable[li.venue.v] ELSE "",
     enlace      |-> IF li.href.has THEN BASE_URL \o li.href.v ELSE "",
     latitude    |-> li.lat,
     longitude   |-> li.lon,
     distance_km |-> Round2(d)]

\* One pass of the loop body of lines 334-388 for element li: the records it
\* appends to `eventos` (none when the element is skipped).
ProcessElement_RequireVenue(li, hlat, hlon, radius) ==
    IF li.lat = None \/ li.lon = None \/ ~li.venue.has THEN << >>
    ELSE LET g == Geodesic(hlat, hlon, li.lat, li.lon) IN
         IF ~g.ok THEN << >>
         ELSE IF FGt(g.km, radius) THEN << >>
         ELSE << Record(li, g.km) >>

ProcessElement(li, hlat, hlon, radius) ==
    IF li.lat = None \/ li.lon = None THEN << >>                 \* line 369
    ELSE LET g == Geodesic(hlat, hlon, li.lat, li.lon) IN
         IF ~g.ok THEN << >>                                     \* line 386
         ELSE IF FGt(g.km, radius) THEN << >>                    \* line 374
         ELSE << Record(li, g.km) >>                             \* line 377

\* Lines 333-388: the loop over eventos_encontrados, in their order.
RECURSIVE ProcessAll_Abort(_, _, _, _)
ProcessAll_Abort(els, hlat, hlon, radius) ==
    IF els = << >> THEN << >>
    ELSE IF /\ Head(els).lat # None /\ Head(els).lon # None
            /\ ~Geodesic(hlat, hlon, Head(els).lat, Head(els).lon).ok
         THEN << >>
    ELSE ProcessElement(Head(els), hlat, hlon, radius)
         \o ProcessAll_Abort(Tail(els), hlat, hlon, radius)

RECURSIVE ProcessAll_Prepend(_, _, _, _)
ProcessAll_Prepend(els, hlat, hlon, radius) ==
    IF els = << >> THEN << >>
    ELSE ProcessAll_Prepend(Tail(els), hlat, hlon, radius)
         \o ProcessElement(Head(els), hlat, hlon, radius)

RECURSIVE ProcessAll(_, _, _, _)
ProcessAll(els, hlat, hlon, radius) ==
    IF els = << >> THEN << >>
    ELSE ProcessElement(Head(els), hlat, hlon, radius)
         \o ProcessAll(Tail(els), hlat, hlon, radius)

---------------------------------------------------------------------------
(* Output and the top level (lines 402-414).                               *)

EMPTY == << >>                       \* the JSON array []

Out(line) == Append(stdout, line)    \* one line written to standard output

\* Line 405: what asyncio.wait_for raises in the main program when the
\* coroutine ends by returning ("return"), by an exception ("exc"), or by the
\* CancelledError the deadline threw into it ("cancel").
WaitFor_NoConvert(k) == k
WaitFor(k) ==
    IF k = "cancel" THEN "TimeoutError"
    ELSE IF k = "exc" THEN "Exception"
    ELSE "return"

\* Lines 406 and 409: the except clauses of the main program.
MainCatches(e) == e \in {"TimeoutError", "Exception"}

\* Lines 407 and 410.
MainOutput(e, out) == IF MainCatches(e) THEN Append(out, EMPTY) ELSE out

MainExitStatus(e) == IF e = "return" \/ MainCatches(e) THEN 0 ELSE 1

\* The coroutine has ended in way k with `out` on standard output: the main
\* program handles it and the process exits.
Finish(k, out) ==
    /\ pc' = "done"
    /\ stdout' = MainOutput(WaitFor(k), out)
    /\ exitStatus' = MainExitStatus(WaitFor(k))
    /\ UNCHANGED pending

\* Line 294: the line the handler of line 287 writes.
HandlerOut_Silent(out) == out
HandlerOut(out) == Append(out, EMPTY)

\* Control moves on to the await at p.
Continue(p) == pc' = p /\ UNCHANGED <<pending, stdout, exitStatus>>

\* Control leaves the body of `async with` (line 108) in way k: __aexit__ is
\* awaited next.
LeaveWith(k, out) ==
    /\ pc' = "pw_exit"
    /\ pending' = k
    /\ stdout' = out
    /\ UNCHANGED exitStatus

\* Lines 287-295, entered with an Exception: close the browser if there is
\* one, then write [] and return.
Handler ==
    IF browser # "None"
    THEN /\ pc' = "close_exc"
         /\ closeCalls' = closeCalls + 1
         /\ UNCHANGED <<pending, stdout, exitStatus>>
    ELSE /\ Finish("return", HandlerOut(stdout))
         /\ UNCHANGED closeCalls

\* Control has left `async with` in way k.
AfterWith(k) ==
    CASE k = "return" -> Finish("return", stdout) /\ UNCHANGED closeCalls
      [] k = "fall"   -> Continue("parse") /\ UNCHANGED closeCalls
      [] k = "exc"    -> Handler
      [] k = "cancel" -> Finish("cancel", stdout) /\ UNCHANGED closeCalls

---------------------------------------------------------------------------
(* The synchronous prologue (lines 60-104).                                *)

NUM_ARGS == 3

TooFewArgs(a) == Len(a) < NUM_ARGS             \* len(sys.argv) < 4

AllParse(a) == \A k \in 1..NUM_ARGS : ParsesAsFloat(a[k])

Start ==
    /\ pc = "start"
    /\ IF TooFewArgs(argv) \/ ~AllParse(argv)
       THEN /\ Finish("return", Out(EMPTY))            \* lines 61, 70
            /\ UNCHANGED qvars
       ELSE /\ hotel_lat' = FloatOf(argv[1])
            /\ hotel_lon' = FloatOf(argv[2])
            /\ radius_km' = FloatOf(argv[3])
            /\ URL' = ResolveURL(FloatOf(argv[1]), FloatOf(argv[2]),
                                 FloatOf(argv[3]))
            /\ ensureCalled' = TRUE                    \* line 104
            /\ Continue("pw_enter")
    /\ UNCHANGED <<argv, uvars, lvars, nvars, cvars, xvars, closeCalls, cancelled>>

---------------------------------------------------------------------------
(* The awaits of the coroutine.  XStep(o) is what follows when the call    *)
(* awaited at X ends with outcome o: "ok" (it returns), "exc" (it raises   *)
(* an Exception), "timeout" (its own asyncio.wait_for raises TimeoutError) *)
(* or "cancel" (the global deadline throws CancelledError into the await;  *)
(* CancelledError is a BaseException, so `except Exception` lets it pass). *)

NUM_LAUNCH_CONFIGS == 3      \* len(launch_options), lines 110-131
NUM_SELECTORS == 5           \* len(selectores), lines 217-223

\* Line 108: async_playwright().__aenter__().
PwEnterStep(o) ==
    /\ pc = "pw_enter"
    /\ CASE o = "ok" ->
              /\ pwStarted' = TRUE
              /\ i' = 1
              /\ Continue("launch")
              /\ UNCHANGED <<launchLog, browser, pageCreated, closeCalls>>
         [] o = "exc" ->
              /\ Handler
              /\ UNCHANGED lvars
         [] o = "cancel" ->
              /\ Finish("cancel", stdout)
              /\ UNCHANGED <<lvars, closeCalls>>
    /\ UNCHANGED <<argv, uvars, qvars, nvars, cvars, xvars>>

\* Lines 134-153: one attempt of the launch loop, and the check after it.
LaunchStep_NoBreak(o) ==
    /\ pc = "launch"
    /\ launchLog' = Append(launchLog, o)
    /\ CASE o = "ok" ->
              /\ browser' = "Browser"
              /\ IF i < NUM_LAUNCH_CONFIGS
                 THEN i' = i + 1 /\ Continue("launch")
                 ELSE UNCHANGED i /\ Continue("new_page")
         [] o = "timeout" ->
              /\ UNCHANGED browser
              /\ IF i < NUM_LAUNCH_CONFIGS
                 THEN i' = i + 1 /\ Continue("launch")
                 ELSE UNCHANGED i /\ LeaveWith("exc", stdout)
         [] o = "exc" ->
              /\ UNCHANGED browser
              /\ IF i = NUM_LAUNCH_CONFIGS
                 THEN UNCHANGED i /\ LeaveWith("exc", stdout)
                 ELSE i' = i + 1 /\ Continue("launch")
         [] o = "cancel" ->
              /\ UNCHANGED <<browser, i>>
              /\ LeaveWith("cancel", stdout)
    /\ UNCHANGED <<argv, uvars, qvars, pwStarted, pageCreated, nvars, cvars,
                   xvars, closeCalls>>

LaunchStep(o) ==
    /\ pc = "launch"
    /\ launchLog' = Append(launchLog, o)
    /\ CASE o = "ok" ->                                   \* lines 141-142
              /\ browser' = "Browser"
              /\ Continue("new_page")
              /\ UNCHANGED i
         [] o = "timeout" ->                              \* lines 143-145
              /\ UNCHANGED browser
              /\ IF i < NUM_LAUNCH_CONFIGS
                 THEN i' = i + 1 /\ Continue("launch")
                 ELSE UNCHANGED i /\ LeaveWith("exc", stdout)    \* line 153
         [] o = "exc" ->                                  \* lines 146-150
              /\ UNCHANGED browser
              /\ IF i = NUM_LAUNCH_CONFIGS
                 THEN UNCHANGED i /\ LeaveWith("exc", stdout)    \* line 149
                 ELSE i' = i + 1 /\ Continue("launch")
         [] o = "cancel" ->
              /\ UNCHANGED <<browser, i>>
              /\ LeaveWith("cancel", stdout)
    /\ UNCHANGED <<argv, uvars, qvars, pwStarted, pageCreated, nvars, cvars, xvars,
                   closeCalls>>

\* Line 155: browser.new_page().
NewPageStep(o) ==
    /\ pc = "new_page"
    /\ CASE o = "ok" -> pageCreated' = TRUE /\ Continue("init_script")
         [] o \in {"exc", "cancel"} ->
              UNCHANGED pageCreated /\ LeaveWith(o, stdout)
    /\ UNCHANGED <<argv, uvars, qvars, pwStarted, i, launchLog, browser, nvars,
                   cvars, xvars, closeCalls>>

\* Line 158: page.add_init_script(); line 171 follows.
InitScriptStep(o) ==
    /\ pc = "init_script"
    /\ CASE o = "ok" -> Continue("set_headers")
         [] o \in {"exc", "cancel"} -> LeaveWith(o, stdout)
    /\ UNCHANGED <<argv, uvars, qvars, lvars, nvars, cvars, xvars, closeCalls>>

\* Line 180: page.set_extra_http_headers(); on return page.goto is called.
SetHeadersStep(o) ==
    /\ pc = "set_headers"
    /\ CASE o = "ok" ->
              /\ navCalls' = navCalls + 1
              /\ Continue("goto")
         [] o \in {"exc", "cancel"} ->
              /\ UNCHANGED navCalls
              /\ LeaveWith(o, stdout)
    /\ UNCHANGED <<argv, uvars, qvars, lvars, navResult, selIdx, selWaits, found,
                   cvars, xvars, closeCalls>>

MAX_RETRIES == 3             \* line 13; no code reads it

\* Lines 195-198 and 204-213: page.goto() under wait_for.
GotoStep_Retry(o) ==
    /\ pc = "goto"
    /\ CASE o = "ok" ->
              /\ Continue("sleep")
              /\ UNCHANGED <<navCalls, navResult, closeCalls>>
         [] o \in {"timeout", "exc"} ->
              IF navCalls < MAX_RETRIES
              THEN /\ navCalls' = navCalls + 1
                   /\ Continue("goto")
                   /\ UNCHANGED <<navResult, closeCalls>>
              ELSE /\ navResult' = o
                   /\ closeCalls' = closeCalls + 1
                   /\ Continue("close_nav")
                   /\ UNCHANGED navCalls
         [] o = "cancel" ->
              /\ LeaveWith("cancel", stdout)
              /\ UNCHANGED <<navCalls, navResult, closeCalls>>
    /\ UNCHANGED <<argv, uvars, qvars, lvars, selIdx, selWaits, found,
                   cvars, xvars>>

GotoStep(o) ==
    /\ pc = "goto"
    /\ CASE o = "ok" ->
              /\ Continue("sleep")
              /\ UNCHANGED <<navResult, closeCalls>>
         [] o \in {"timeout", "exc"} ->                   \* lines 204, 209
              /\ navResult' = o
              /\ closeCalls' = closeCalls + 1
              /\ Continue("close_nav")
         [] o = "cancel" ->
              /\ LeaveWith("cancel", stdout)
              /\ UNCHANGED <<navResult, closeCalls>>
    /\ UNCHANGED <<argv, uvars, qvars, lvars, navCalls, selIdx, selWaits, found,
                   cvars, xvars>>

\* Lines 206-208 and 211-213: browser.close() after a failed navigation.
CloseNavStep(o) ==
    /\ pc = "close_nav"
    /\ CASE o = "ok" -> LeaveWith("return", Out(EMPTY))
         [] o \in {"exc", "cancel"} -> LeaveWith(o, stdout)
    /\ UNCHANGED <<argv, uvars, qvars, lvars, nvars, cvars, xvars, closeCalls>>

\* Line 201: asyncio.sleep(3); the first selector wait follows.
SleepStep(o) ==
    /\ pc = "sleep"
    /\ CASE o = "ok" ->
              /\ navResult' = "ok"
              /\ selIdx' = 1
              /\ selWaits' = selWaits + 1
              /\ Continue("wait_selector")
         [] o = "cancel" ->
              /\ UNCHANGED <<navResult, selIdx, selWaits>>
              /\ LeaveWith("cancel", stdout)
    /\ UNCHANGED <<argv, uvars, qvars, lvars, navCalls, found, cvars, xvars,
                   closeCalls>>

\* Lines 225-240: one wait of the selector loop; line 246 follows the loop.
WaitSelectorStep(o) ==
    /\ pc = "wait_selector"
    /\ CASE o = "ok" ->                                   \* lines 232-234
              /\ found' = TRUE
              /\ contentCalls' = contentCalls + 1
              /\ Continue("content1")
              /\ UNCHANGED <<selIdx, selWaits>>
         [] o \in {"timeout", "exc"} ->                   \* lines 235-240
              /\ UNCHANGED found
              /\ IF selIdx < NUM_SELECTORS
                 THEN /\ selIdx' = selIdx + 1
                      /\ selWaits' = selWaits + 1
                      /\ Continue("wait_selector")
                      /\ UNCHANGED contentCalls
                 ELSE /\ contentCalls' = contentCalls + 1
                      /\ Continue("content1")
                      /\ UNCHANGED <<selIdx, selWaits>>
         [] o = "cancel" ->
              /\ UNCHANGED <<found, selIdx, selWaits, contentCalls>>
              /\ LeaveWith("cancel", stdout)
    /\ UNCHANGED <<argv, uvars, qvars, lvars, navCalls, navResult, html, validation,
                   xvars, closeCalls>>

\* Lines 246-269: the first page.content() and the checks on its result h.
Content1Step(o, h) ==
    /\ pc = "content1"
    /\ CASE o = "ok" ->
              /\ html' = h
              /\ validation' = Validate(h)
              /\ IF Validate(h) = "pass"
                 THEN /\ contentCalls' = contentCalls + 1
                      /\ Continue("content2")
                      /\ UNCHANGED closeCalls
                 ELSE /\ closeCalls' = closeCalls + 1     \* lines 252, 261
                      /\ Continue("close_val")
                      /\ UNCHANGED contentCalls
         [] o \in {"exc", "cancel"} ->
              /\ LeaveWith(o, stdout)
              /\ UNCHANGED <<html, validation, contentCalls, closeCalls>>
    /\ UNCHANGED <<argv, uvars, qvars, lvars, nvars, xvars>>

\* Lines 252-254 and 261-263: browser.close() after a rejected page.
CloseValStep(o) ==
    /\ pc = "close_val"
    /\ CASE o = "ok" -> LeaveWith("return", Out(EMPTY))
         [] o \in {"exc", "cancel"} -> LeaveWith(o, stdout)
    /\ UNCHANGED <<argv, uvars, qvars, lvars, nvars, cvars, xvars, closeCalls>>

\* Lines 272-285: the second page.content(), under wait_for, with result h.
\* Whatever happens, the finally clause of line 284 calls browser.close().
Content2Step(o, h) ==
    /\ pc = "content2"
    /\ closeCalls' = closeCalls + 1
    /\ CASE o = "ok" ->
              /\ html' = h
              /\ pc' = "close_fin"
              /\ pending' = "fall"
         [] o \in {"timeout", "exc"} ->                   \* lines 274, 279
              /\ pc' = "close_c2"
              /\ UNCHANGED <<html, pending>>
         [] o = "cancel" ->
              /\ pc' = "close_fin"
              /\ pending' = "cancel"
              /\ UNCHANGED html
    /\ UNCHANGED <<argv, uvars, qvars, lvars, nvars, contentCalls, validation, xvars,
                   stdout, exitStatus>>

\* Lines 276-278 and 281-283: browser.close() in the except clauses; the
\* finally clause of line 284 runs next.
CloseC2Step(o) ==
    /\ pc = "close_c2"
    /\ pc' = "close_fin"
    /\ closeCalls' = closeCalls + 1
    /\ CASE o = "ok" -> pending' = "return" /\ stdout' = Out(EMPTY)
         [] o \in {"exc", "cancel"} -> pending' = o /\ UNCHANGED stdout
    /\ UNCHANGED <<argv, uvars, qvars, lvars, nvars, cvars, xvars, exitStatus>>

\* Line 285: browser.close() in the finally clause.
CloseFinStep(o) ==
    /\ pc = "close_fin"
    /\ CASE o = "ok" -> LeaveWith(pending, stdout)
         [] o \in {"exc", "cancel"} -> LeaveWith(o, stdout)
    /\ UNCHANGED <<argv, uvars, qvars, lvars, nvars, cvars, xvars, closeCalls>>

\* Line 108: async_playwright().__aexit__(), awaited on every way out of
\* the with-block; an exception it raises replaces the pending way out.
PwExitStep(o) ==
    /\ pc = "pw_exit"
    /\ CASE o = "ok" -> AfterWith(pending)
         [] o \in {"exc", "cancel"} -> AfterWith(o)
    /\ UNCHANGED <<argv, uvars, qvars, lvars, nvars, cvars, xvars>>

\* Lines 290-295: browser.close() in the handler.  The bare `except:` of
\* line 292 swallows whatever the call raises, CancelledError included.
CloseExcStep(o) ==
    /\ pc = "close_exc"
    /\ o \in {"ok", "exc", "cancel"}
    /\ Finish("return", HandlerOut(stdout))
    /\ UNCHANGED <<argv, uvars, qvars, lvars, nvars, cvars, xvars, closeCalls>>

---------------------------------------------------------------------------
(* The synchronous tail of the coroutine (lines 297-399).                  *)

\* Lines 298-303: BeautifulSoup(html, "html.parser").
ParseHtmlStep(o) ==
    /\ pc = "parse"
    /\ CASE o = "ok" -> parsed' = TRUE /\ Continue("extract")
         [] o = "exc" -> UNCHANGED parsed /\ Finish("return", Out(EMPTY))
    /\ UNCHANGED <<argv, uvars, qvars, lvars, nvars, cvars, extracted, eventos,
                   closeCalls, cancelled>>

\* Lines 305-388: the listing elements of the parsed markup, run through the
\* loop body in document order.
Extract ==
    /\ pc = "extract"
    /\ eventos' = ProcessAll(Locate(html.elems), hotel_lat, hotel_lon,
                            radius_km)
    /\ extracted' = TRUE
    /\ Continue("emit")
    /\ UNCHANGED <<argv, uvars, qvars, lvars, nvars, cvars, parsed, closeCalls,
                   cancelled>>

\* Lines 392-399: serialise, re-parse, write; [] when that raises.
EmitStep_PrintFirst(o) ==
    /\ pc = "emit"
    /\ CASE o = "ok" -> Finish("return", Out(eventos))
         [] o = "exc" -> Finish("return", Append(Out(eventos), EMPTY))
    /\ UNCHANGED <<argv, uvars, qvars, lvars, nvars, cvars, xvars, closeCalls,
                   cancelled>>

EmitStep(o) ==
    /\ pc = "emit"
    /\ CASE o = "ok" -> Finish("return", Out(eventos))
         [] o = "exc" -> Finish("return", Out(EMPTY))
    /\ UNCHANGED <<argv, uvars, qvars, lvars, nvars, cvars, xvars, closeCalls,
                   cancelled>>

---------------------------------------------------------------------------
(* Actions.                                                                *)

PwEnter == \E o \in {"ok", "exc"} : PwEnterStep(o) /\ UNCHANGED cancelled
Launch ==
    \E o \in {"ok", "timeout", "exc"} : LaunchStep(o) /\ UNCHANGED cancelled
NewPage == \E o \in {"ok", "exc"} : NewPageStep(o) /\ UNCHANGED cancelled
InitScript == \E o \in {"ok", "exc"} : InitScriptStep(o) /\ UNCHANGED cancelled
SetHeaders == \E o \in {"ok", "exc"} : SetHeadersStep(o) /\ UNCHANGED cancelled
Goto == \E o \in {"ok", "timeout", "exc"} : GotoStep(o) /\ UNCHANGED cancelled
CloseNav == \E o \in {"ok", "exc"} : CloseNavStep(o) /\ UNCHANGED cancelled
Sleep == SleepStep("ok") /\ UNCHANGED cancelled
WaitSelector ==
    \E o \in {"ok", "timeout", "exc"} :
        WaitSelectorStep(o) /\ UNCHANGED cancelled
Content1 ==
    \/ \E h \in Pages : Content1Step("ok", h) /\ UNCHANGED cancelled
    \/ Content1Step("exc", NoPage) /\ UNCHANGED cancelled
CloseVal == \E o \in {"ok", "exc"} : CloseValStep(o) /\ UNCHANGED cancelled
Content2 ==
    \/ \E h \in Pages : Content2Step("ok", h) /\ UNCHANGED cancelled
    \/ \E o \in {"timeout", "exc"} :
           Content2Step(o, NoPage) /\ UNCHANGED cancelled
CloseC2 == \E o \in {"ok", "exc"} : CloseC2Step(o) /\ UNCHANGED cancelled
CloseFin == \E o \in {"ok", "exc"} : CloseFinStep(o) /\ UNCHANGED cancelled
PwExit == \E o \in {"ok", "exc"} : PwExitStep(o) /\ UNCHANGED cancelled
CloseExc == \E o \in {"ok", "exc"} : CloseExcStep(o) /\ UNCHANGED cancelled
ParseHtml == \E o \in {"ok", "exc"} : ParseHtmlStep(o)
Emit == \E o \in {"ok", "exc"} : EmitStep(o)

\* Line 405: the 120 s deadline fires while the coroutine is suspended in an
\* await; wait_for cancels it, once.
GlobalTimeout ==
    /\ ~cancelled
    /\ cancelled' = TRUE
    /\ \/ PwEnterStep("cancel")
       \/ LaunchStep("cancel")
       \/ NewPageStep("cancel")
       \/ InitScriptStep("cancel")
       \/ SetHeadersStep("cancel")
       \/ GotoStep("cancel")
       \/ CloseNavStep("cancel")
       \/ SleepStep("cancel")
       \/ WaitSelectorStep("cancel")
       \/ Content1Step("cancel", NoPage)
       \/ CloseValStep("cancel")
       \/ Content2Step("cancel", NoPage)
       \/ CloseC2Step("cancel")
       \/ CloseFinStep("cancel")
       \/ PwExitStep("cancel")
       \/ CloseExcStep("cancel")

---------------------------------------------------------------------------
(* amadeus_hotels.calculate_distance (lines 71-103).                       *)
(*                                                                         *)
(* An argument is a Python value: its type and, for a number, its value in *)
(* thousandths of a degree.  Besides NaN a float may be infinite (Inf), and *)
(* an int may be too large for a float (Huge: 2**1024 and beyond).  The    *)
(* numbers of the model are multiples of 30 degrees, so that every angle   *)
(* the formula takes a sine or cosine of is a multiple of 15 degrees.      *)

Inf == 2000000002       \* float("inf")
Huge == 2000000003      \* an int that float() cannot hold

PyFloat(x) == [t |-> "float", v |-> x]
PyInt(x) == [t |-> "int", v |-> x]
Str == [t |-> "str", v |-> 0]
NoneValue == [t |-> "NoneType", v |-> 0]

\* What a call produces: a returned float in tenths of a kilometre, or an
\* exception that leaves the function.
Returns(x) == [raised |-> "none", value |-> x]
Raises(e) == [raised |-> e, value |-> 0]

\* Line 77: isinstance(coord, (int, float)).
IsNumber(c) == c.t \in {"int", "float"}

\* 1000 * sin of 0, 15, ..., 90 degrees.  With this table and the
\* interpolation below the model's distances are within a few per cent of
\* the function's (3335.9 km for 3335.8 km along 30 degrees of a meridian).
SinTable == <<0, 259, 500, 707, 866, 966, 1000>>

DEG15 == 15000       \* step of the sine table, in thousandths of a degree
DEG90 == 90000
DEG180 == 180000

\* 1000 * math.sin(x) and 1000 * math.cos(x), x a multiple of 15 degrees in
\* [-180, 180].
RECURSIVE Sin(_)
Sin(x) ==
    IF x < 0 THEN -Sin(-x)
    ELSE IF x > DEG90 THEN Sin(DEG180 - x)
    ELSE SinTable[x \div DEG15 + 1]

Cos(x) == Sin(DEG90 - x)

\* math.asin(math.sqrt(a)) for a in millionths, by linear interpolation in
\* the squares of the sine table; in thousandths of a degree.
RECURSIVE ASinSqrt(_, _)
ASinSqrt(a, k) ==
    LET lo == SinTable[k] * SinTable[k]
        hi == SinTable[k + 1] * SinTable[k + 1]
    IN  IF a > hi THEN ASinSqrt(a, k + 1)
        ELSE DEG15 * (k - 1) + ((1500 * (a - lo)) \div (hi - lo)) * 10

EARTH_RADIUS == 6371     \* r, line 92
PI_E4 == 31416           \* 10000 * math.pi

\* Lines 94 and 100: c * r for c = 2 * theta, theta in thousandths of a
\* degree, rounded to tenths of a kilometre.
KmTenths(theta) ==
    (theta * ((2 * PI_E4 * EARTH_RADIUS) \div 18000) + 5000) \div 10000

\* Line 102: the exceptions the function catches.
Caught == {"ValueError", "TypeError", "ZeroDivisionError"}

\* Lines 81-100 on four numbers.  math.radians raises OverflowError for an
\* int too large for a float; math.sin and math.cos raise ValueError for an
\* infinite argument and math.sqrt for a negative one, math.asin for one
\* beyond 1; NaN goes through all of them and is caught by line 97.
Haversine(lat1, lon1, lat2, lon2) ==
    LET dlat == lat2 - lat1
        dlon == lon2 - lon1
        a == Sin(dlat \div 2) * Sin(dlat \div 2)
             + (Cos(lat1) * Cos(lat2) * ((Sin(dlon \div 2) * Sin(dlon \div 2)) \div 1000))
               \div 1000
    IN  IF a < 0 \/ a > 1000000 THEN Raises("ValueError")
        ELSE Returns(KmTenths(ASinSqrt(a, 1)))

\* Lines 81-100: the body of the try block on four numbers of any kind.
\* An infinite latitude reaches math.cos, and a longitude difference that is
\* infinite reaches math.sin; a difference of two infinities is NaN.
Body(lat1, lon1, lat2, lon2) ==
    IF Huge \in {lat1, lon1, lat2, lon2} THEN Raises("OverflowError")
    ELSE IF Inf \in {lat1, lat2} THEN Raises("ValueError")
    ELSE IF (lon1 = Inf) # (lon2 = Inf) /\ NaN \notin {lon1, lon2}
         THEN Raises("ValueError")
    ELSE IF NaN \in {lat1, lon1, lat2, lon2} \/ Inf \in {lon1, lon2}
         THEN Returns(0)                                          \* line 98
    ELSE Haversine(lat1, lon1, lat2, lon2)

\* Lines 71-103.
calculate_distance(lat1, lon1, lat2, lon2) ==
    IF ~(\A c \in {lat1, lon1, lat2, lon2} : IsNumber(c))
    THEN Returns(0)                                               \* line 78
    ELSE LET b == Body(lat1.v, lon1.v, lat2.v, lon2.v)
         IN  IF b.raised \in Caught THEN Returns(0)               \* line 103
             ELSE b

NoCoords == << >>
NotCalled == Raises("not called")

\* No call of the utility is modelled.
NoCall == coords = NoCoords /\ distance = NotCalled

\* One call of the utility on the arguments `coords`.
Calculate ==
    /\ coords # NoCoords
    /\ distance = NotCalled
    /\ distance' = calculate_distance(coords[1], coords[2], coords[3], coords[4])
    /\ UNCHANGED <<argv, pc, qvars, lvars, nvars, cvars, xvars, pending,
                   closeCalls, cancelled, stdout, exitStatus, coords>>

---------------------------------------------------------------------------
(* Specifications.                                                         *)

\* Command lines of the process model: missing arguments, a non-numeric
\* argument, and queries in and out of the bounding box.
MainArgvs ==
    { << >>,
      <<"32.5", "-117.0">>,
      <<"abc", "-117.0", "20">>,
      <<"32.5", "-117.0", "">>,
      <<"32.5", "-117.0", "20">>,
      <<"32.5", "-117.0", "30">>,
      <<"32.5", "-117.0", "nan">>,
      <<"19.4", "-99.1", "15">> }

\* Command lines of the routing model: every band edge, inside and outside
\* the box.
RouteArgvs ==
    { <<la, lo, r>> :
        la \in {"32.5", "32.0", "33.0", "25.5", "25.0", "20.5", "20.0",
                "19.4", "19.0", "48.8", "0", "nan"},
        lo \in {"-117.0", "-99.1", "-118.0", "-86.0", "2.3", "0", "nan"},
        r \in {"20", "15"} }

InitWith(A) ==
    /\ argv \in A
    /\ pc = "start"
    /\ hotel_lat = None /\ hotel_lon = None /\ radius_km = None
    /\ URL = NoURL
    /\ ensureCalled = FALSE
    /\ pwStarted = FALSE
    /\ i = 0
    /\ launchLog = << >>
    /\ browser = "None"
    /\ pageCreated = FALSE
    /\ navCalls = 0
    /\ navResult = "none"
    /\ selIdx = 0
    /\ selWaits = 0
    /\ found = FALSE
    /\ contentCalls = 0
    /\ html = NoPage
    /\ validation = "none"
    /\ pending = "none"
    /\ closeCalls = 0
    /\ cancelled = FALSE
    /\ parsed = FALSE
    /\ extracted = FALSE
    /\ eventos = << >>
    /\ stdout = << >>
    /\ exitStatus = -1

Init == InitWith(MainArgvs) /\ NoCall

Next ==
    \/ Start
    \/ PwEnter
    \/ Launch
    \/ NewPage
    \/ InitScript
    \/ SetHeaders
    \/ Goto
    \/ CloseNav
    \/ Sleep
    \/ WaitSelector
    \/ Content1
    \/ CloseVal
    \/ Content2
    \/ CloseC2
    \/ CloseFin
    \/ PwExit
    \/ CloseExc
    \/ ParseHtml
    \/ Extract
    \/ Emit
    \/ GlobalTimeout

Spec == Init /\ [][Next]_vars

\* The prologue alone, over the routing command lines.
InitRoute == InitWith(RouteArgvs) /\ NoCall

NextRoute == Start

SpecRoute == InitRoute /\ [][NextRoute]_vars

\* The loop body and the serialisation alone, from the state in which the
\* markup has just been parsed, over one element with every combination of
\* the descendants and attributes the loop body reads, and over the markup
\* of the selector cascade.
DateTexts ==
    { Absent, Attr(""), Attr("2024"), Attr("2024-05-17"),
      Attr("2024-05-17T20:00:00"), Attr("Tomorrow night") }

TitleTexts == { Absent, Attr("2024-05-17"), Attr("Sat 17 May 2024"), Attr("TBA") }

ExtractElems ==
    { [tag |-> "li", cls |-> "event-listings-element", ucls |-> "",
       testid |-> "", hasTime |-> t, datetime |-> d, title |-> ti,
       strong |-> s, venue |-> v, href |-> h, lat |-> g[1], lon |-> g[2]] :
        t \in BOOLEAN, d \in DateTexts, ti \in TitleTexts,
        s \in {Absent, Attr(" Band\n")}, v \in {Absent, Attr(" Venue ")},
        h \in {Absent, Attr("/concerts/1"),
               Attr("https://www.songkick.com/concerts/1")},
        g \in { <<32677, -117000>>, <<32726, -117000>>, <<None, None>>,
                 <<32677, None>>, <<JSON_STR_NUMERIC, -117000>>,
                 <<JSON_STR_TEXT, -117000>> } }

\* Markup of one or two elements that differ in what the selectors read.
CascadeElems ==
    { NearElem, Listing(32726, -117000), FooterElem, TestIdElem,
      UnderscoreElem, CardElem }

ExtractDocs ==
    { <<e>> : e \in ExtractElems }
    \cup { <<e>> : e \in CascadeElems }
    \cup { <<e, f>> : e \in CascadeElems, f \in CascadeElems }

\* Markup for a query at 30 N 0 E with a radius of 4000 km: a listing on the
\* equator, 30 degrees of the meridian away, and one at 60 S.
GridDocs == { <<Listing(0, 0)>>, <<Listing(-60000, 0)>>,
              <<Listing(-60000, 0), Listing(0, 0)>> }

\* The queries of the extraction model: the command line, its three numbers
\* and the markup retrieved for it.
ExtractQueries ==
    { [argv |-> <<"32.5", "-117.0", "20">>, lat |-> 32500, lon |-> -117000,
       radius |-> 20000, docs |-> ExtractDocs],
      [argv |-> <<"30.0", "0.0", "4000">>, lat |-> 30000, lon |-> 0,
       radius |-> 4000000, docs |-> GridDocs] }

InitExtract ==
    /\ \E q \in ExtractQueries :
        /\ argv = q.argv
        /\ hotel_lat = q.lat /\ hotel_lon = q.lon /\ radius_km = q.radius
        /\ URL = ResolveURL(q.lat, q.lon, q.radius)
        /\ \E doc \in q.docs :
               html = [len |-> MIN_HTML_LEN, words |-> {}, elems |-> doc]
    /\ pc = "extract"
    /\ ensureCalled = TRUE
    /\ pwStarted = TRUE
    /\ i = 1
    /\ launchLog = <<"ok">>
    /\ browser = "Browser"
    /\ pageCreated = TRUE
    /\ navCalls = 1
    /\ navResult = "ok"
    /\ selIdx = 1
    /\ selWaits = 1
    /\ found = TRUE
    /\ contentCalls = 2
    /\ validation = "pass"
    /\ pending = "fall"
    /\ closeCalls = 1
    /\ cancelled = FALSE
    /\ parsed = TRUE
    /\ extracted = FALSE
    /\ eventos = << >>
    /\ stdout = << >>
    /\ exitStatus = -1
    /\ NoCall

NextExtract ==
    \/ Extract
    \/ Emit

SpecExtract == InitExtract /\ [][NextExtract]_vars

\* Calls of calculate_distance alone: every list of four arguments drawn from
\* numbers on the 30-degree grid, NaN, an infinite float, an int too large
\* for a float, a string and None.
CoordValues ==
    { PyFloat(0), PyFloat(30000), PyFloat(-60000), PyInt(90000),
      PyFloat(NaN), PyFloat(Inf), PyInt(Huge), Str, NoneValue }

InitDistance ==
    /\ InitWith({<< >>})
    /\ coords \in [1..4 -> CoordValues]
    /\ distance = NotCalled

NextDistance == Calculate

SpecDistance == InitDistance /\ [][NextDistance]_vars

---------------------------------------------------------------------------
(* Properties.                                                             *)

Done == pc = "done"

\* x <= y on floats: false whenever an operand is NaN.
FLe(x, y) == x # NaN /\ y # NaN /\ x <= y

\* Every record written to standard output, on any line.
Emitted ==
    UNION { { stdout[k][j] : j \in 1..Len(stdout[k]) } : k \in 1..Len(stdout) }

\* C1: when the process has ended, whatever happened during the run,
\* standard output holds exactly one line (a JSON array).
C1_ExactlyOneLine == Done => Len(stdout) = 1

\* C2: when the process has ended and a browser was launched,
\* browser.close() has been called on it.
C2_BrowserClosedAtEnd == (Done /\ browser = "Browser") => closeCalls >= 1


\* C3: every record written to standard output lies within radius_km of the
\* query point.
C3_WithinRadius ==
    Done =>
        \A rec \in Emitted :
            LET g == Geodesic(hotel_lat, hotel_lon, rec.latitude, rec.longitude)
            IN  g.ok /\ FLe(g.km, radius_km)

C4_BadArgs ==
    \/ Len(argv) < 3
    \/ \E k \in 1..3 : argv[k] \in {"abc", ""}

\* C4: with fewer than three arguments or a non-numeric one, no browser
\* check, start, launch or navigation ever happens, and the output of the
\* finished run is exactly [].
C4_BadArgsNoBrowser ==
    C4_BadArgs =>
        /\ ~ensureCalled /\ ~pwStarted /\ launchLog = << >>
        /\ browser = "None" /\ ~pageCreated /\ navCalls = 0
        /\ (Done => stdout = <<EMPTY>>)

C4_Witness ==
    Done /\ Len(argv) = 3 /\ argv[1] = "abc" /\ stdout = <<EMPTY>>

\* C5: when the global deadline has fired during the run, the output of the
\* finished run is exactly [].
C5_DeadlineGivesEmpty == (Done /\ cancelled) => stdout = <<EMPTY>>

\* C6: the process always ends with exit status 0: nothing propagates out of
\* the top-level handler.
C6_ExitZero == Done => exitStatus = 0

C6_Witness == Done /\ cancelled /\ pending = "cancel" /\ exitStatus = 0

C7_AllLaunchesFailed ==
    /\ Len(launchLog) = NUM_LAUNCH_CONFIGS
    /\ \A k \in 1..Len(launchLog) : launchLog[k] \in {"timeout", "exc"}

\* C7: when every launch configuration has failed (timeouts and errors in any
\* mix), no page is created, no navigation is started, and the output of the
\* finished run is exactly [].
C7_LaunchFailureEmpty ==
    C7_AllLaunchesFailed =>
        /\ ~pageCreated /\ navCalls = 0
        /\ (Done => stdout = <<EMPTY>>)

C7_Witness ==
    /\ Done /\ C7_AllLaunchesFailed
    /\ launchLog[NUM_LAUNCH_CONFIGS] = "timeout"
    /\ stdout = <<EMPTY>>

\* C8: when navigation has timed out or raised, the browser is closed, no
\* selector wait, content retrieval, parsing or extraction follows, and the
\* output of the finished run is exactly [].
C8_NavFailure ==
    navResult \in {"timeout", "exc"} =>
        /\ closeCalls >= 1
        /\ selWaits = 0 /\ contentCalls = 0 /\ ~parsed /\ ~extracted
        /\ (Done => stdout = <<EMPTY>>)

\* The first fetch (still in `html`) is short or carries a denylisted phrase.
C9_FirstFetchBad ==
    /\ contentCalls = 1 /\ html # NoPage
    /\ \/ html.len < 1000
       \/ html.words \cap {"CAPTCHA", "Access Denied", "forbidden", "Blocked"}
              # {}

\* C9: when the fetched markup is shorter than 1000 characters or contains a
\* denylisted phrase in any case, the browser is closed, nothing is parsed or
\* extracted, and the output of the finished run is exactly [].
C9_RejectedPage ==
    /\ (pc = "content2" => validation = "pass" /\ html.len >= 1000
            /\ html.words \cap {"CAPTCHA", "Access Denied", "forbidden",
                                "Blocked"} = {})
    /\ C9_FirstFetchBad =>
           /\ closeCalls >= 1
           /\ ~parsed /\ ~extracted
           /\ (Done => stdout = <<EMPTY>>)

C10_InBox ==
    /\ 19000 < hotel_lat /\ hotel_lat < 33000
    /\ -118000 < hotel_lon /\ hotel_lon < -86000

\* C10: a query inside the bounding box resolves to the metro URL of its
\* latitude band, bands tested top-down; (32.5, -117.0) resolves to Tijuana
\* and (19.4, -99.1) to Mexico City.
C10_LatitudeBands ==
    /\ C10_InBox =>
           URL = IF hotel_lat > 32000 THEN MetroURL("31097-mexico-tijuana")
                 ELSE IF hotel_lat > 25000
                      THEN MetroURL("31098-mexico-monterrey")
                 ELSE IF hotel_lat > 20000
                      THEN MetroURL("31099-mexico-guadalajara")
                 ELSE MetroURL("31100-mexico-mexico-city")
    /\ (pc # "start" /\ argv[1] = "32.5" /\ argv[2] = "-117.0")
           => URL = MetroURL("31097-mexico-tijuana")
    /\ (pc # "start" /\ argv[1] = "19.4" /\ argv[2] = "-99.1")
           => URL = MetroURL("31100-mexico-mexico-city")

C10_Witness ==
    /\ hotel_lat = 19400 /\ hotel_lon = -99100
    /\ URL = MetroURL("31100-mexico-mexico-city")

\* C11: a query whose three arguments parsed as numbers and whose point lies
\* outside the bounding box (latitude 0 or longitude 0 included) resolves to
\* the coordinate-search URL holding its latitude, longitude and radius.
C11_OutsideBoxSearch ==
    (hotel_lat # None /\ ~C10_InBox) =>
        URL = SearchURL(hotel_lat, hotel_lon, radius_km)

\* No element of the fetched markup is matched by a selector of the cascade
\* or by the generic search: none has an attribute class_, none is marked
\* data-testid="event-item", none has "event" in its class.
C12_NoListing ==
    \A k \in 1..Len(html.elems) :
        /\ html.elems[k].ucls = ""
        /\ html.elems[k].testid # "event-item"
        /\ html.elems[k].cls \notin {"event-listings-element", "Event-Card"}

\* C12: a selector wait that times out or raises never ends the run, and
\* after the last one the markup is fetched; when no listing element is
\* located, extraction runs over no element and the empty array is written by
\* the serialisation step, the process ending with status 0.
C12_SelectorMissNotFatal ==
    [][ /\ (pc = "wait_selector" /\ cancelled' = cancelled)
            => pc' \in {"wait_selector", "content1"}
        /\ (pc = "wait_selector" /\ selIdx = NUM_SELECTORS
                /\ cancelled' = cancelled)
            => pc' = "content1"
        /\ (pc = "extract" /\ C12_NoListing)
            => (pc' = "emit" /\ extracted' /\ eventos' = << >>)
        /\ (pc = "emit" /\ eventos = << >>)
            => (pc' = "done" /\ stdout' = <<EMPTY>> /\ exitStatus' = 0)
      ]_vars

C12_Witness ==
    /\ Done /\ ~cancelled
    /\ ~found /\ selWaits = NUM_SELECTORS
    /\ html.elems = <<FooterElem>>
    /\ extracted /\ eventos = << >>
    /\ stdout = <<EMPTY>> /\ exitStatus = 0

\* recs is a subsequence of the records of the elements els: each record has
\* the coordinates of an element, and the elements so used come in order.
RECURSIVE IsSubsequence(_, _)
IsSubsequence(recs, els) ==
    IF recs = << >> THEN TRUE
    ELSE IF els = << >> THEN FALSE
    ELSE IF /\ Head(recs).latitude = Head(els).lat
            /\ Head(recs).longitude = Head(els).lon
         THEN IsSubsequence(Tail(recs), Tail(els))
         ELSE IsSubsequence(recs, Tail(els))

\* C13: the records of the array, as extracted and as written to standard
\* output, are a subsequence of the located elements in document order.
C13_DocumentOrder ==
    extracted =>
        /\ IsSubsequence(eventos, Locate(html.elems))
        /\ \A k \in 1..Len(stdout) :
               IsSubsequence(stdout[k], Locate(html.elems))

\* Two records written in document order, the farther one first.
C13_Witness ==
    /\ Done /\ Len(stdout) = 1 /\ Len(stdout[1]) = 2
    /\ Len(html.elems) = 2
    /\ stdout[1][1].latitude = html.elems[1].lat
    /\ stdout[1][2].latitude = html.elems[2].lat
    /\ stdout[1][1].distance_km > stdout[1][2].distance_km

\* s is ten characters in the form YYYY-MM-DD.
IsIsoDate(s) ==
    /\ Len(s) = 10
    /\ \A k \in {1, 2, 3, 4, 6, 7, 9, 10} :
           SubSeq(s, k, k) \in {"0", "1", "2", "3", "4", "5", "6", "7", "8", "9"}
    /\ SubSeq(s, 5, 5) = "-" /\ SubSeq(s, 8, 8) = "-"

\* C14: in every record written to standard output the date is empty or is
\* ten characters in the form YYYY-MM-DD, whatever the datetime or title
\* attribute held.
C14_DateIsIso ==
    \A rec \in Emitted : rec.fecha = "" \/ IsIsoDate(rec.fecha)

\* C15 as stated: every record written to standard output has exactly the
\* fields name, date, venue, link, latitude, longitude and distance_km.
C15_SevenEnglishFields ==
    \A rec \in Emitted :
        DOMAIN rec = {"name", "date", "venue", "link",
                      "latitude", "longitude", "distance_km"}

\* C15, amended: every record written to standard output has exactly the
\* seven fields nombre, fecha, lugar, enlace, latitude, longitude and
\* distance_km.
C15_SevenFields ==
    \A rec \in Emitted :
        DOMAIN rec = {"nombre", "fecha", "lugar", "enlace",
                      "latitude", "longitude", "distance_km"}

C15_Witness ==
    /\ Done /\ Len(stdout) = 1 /\ Len(stdout[1]) = 1
    /\ stdout[1][1].nombre = "Band" /\ stdout[1][1].lugar = ""
    /\ stdout[1][1].distance_km = 19650

\* The call of the utility has ended.
Called == distance # NotCalled

DistanceOf(a, b) == calculate_distance(a[1], a[2], b[1], b[2])

\* C17: for numeric points, the distance from a point to itself is 0.0 and
\* the distance from a to b is the distance from b to a.
C17_IdentityAndSymmetry ==
    (Called /\ \A k \in 1..4 : coords[k].t \in {"int", "float"}) =>
        LET a == <<coords[1], coords[2]>>
            b == <<coords[3], coords[4]>>
        IN  /\ distance = DistanceOf(a, b)
            /\ DistanceOf(a, a) = Returns(0)
            /\ DistanceOf(a, b) = DistanceOf(b, a)

\* C18: the markup that is parsed and extracted from passed the validation:
\* it has at least 1000 characters and none of the denylisted phrases.
C18_ParsedWasValidated ==
    parsed =>
        /\ html.len >= 1000
        /\ html.words \cap {"CAPTCHA", "Access Denied", "forbidden", "Blocked"}
               = {}

\* C19: browser.close() is called at most once in a run.
C19_CloseAtMostOnce == closeCalls <= 1

\* C20: launch attempt k is of configuration k and is made only when every
\* attempt before it timed out or raised and no browser exists; a browser
\* appears only by an attempt that succeeds, after which `browser` never
\* changes and no further attempt is made.
C20_LaunchOrder ==
    [][ /\ launchLog' # launchLog =>
               /\ pc = "launch"
               /\ Len(launchLog') = Len(launchLog) + 1
               /\ SubSeq(launchLog', 1, Len(launchLog)) = launchLog
               /\ Len(launchLog') = i /\ i <= NUM_LAUNCH_CONFIGS
               /\ \A k \in 1..Len(launchLog) :
                      launchLog[k] \in {"timeout", "exc"}
               /\ browser = "None"
               /\ (browser' = "Browser") <=> (launchLog'[i] = "ok")
        /\ browser' # browser =>
               /\ launchLog' # launchLog
               /\ browser = "None" /\ browser' = "Browser"
      ]_vars

C20_Witness ==
    /\ launchLog = <<"timeout", "exc", "ok">>
    /\ i = NUM_LAUNCH_CONFIGS
    /\ browser = "Browser" /\ pageCreated

\* The awaits that only clean up: browser.close() and the exit of the
\* playwright context.
CleanupPcs ==
    {"close_nav", "close_val", "close_c2", "close_fin", "pw_exit", "close_exc"}

\* What counts the browser steps started so far.
BrowserSteps == <<launchLog, pageCreated, navCalls, selWaits, contentCalls>>

\* Every line written so far is [].
OnlyEmptyLines == \A k \in 1..Len(stdout) : stdout[k] = EMPTY

MatchesOf(k) ==
    SelectSeq(html.elems, LAMBDA n : Matches(n, selectores_html[k]))

\* The first selector of the cascade that matches anything; 0 when none does.
FirstHit ==
    IF \E k \in 1..Len(selectores_html) : MatchesOf(k) # << >>
    THEN CHOOSE k \in 1..Len(selectores_html) :
             /\ MatchesOf(k) # << >>
             /\ \A j \in 1..(k - 1) : MatchesOf(j) = << >>
    ELSE 0

\* C22: the elements extracted from are exactly the matches of the first
\* selector of the cascade that has any, and the matches of the generic
\* search only when no selector of the cascade has one.
C22_FirstMatchWins ==
    extracted =>
        /\ Locate(html.elems) =
               IF FirstHit # 0 THEN MatchesOf(FirstHit)
               ELSE SelectSeq(html.elems, GenericMatch)
        /\ eventos = ProcessAll(
               IF FirstHit # 0 THEN MatchesOf(FirstHit)
               ELSE SelectSeq(html.elems, GenericMatch),
               hotel_lat, hotel_lon, radius_km)

\* The marked element wins over a listing element the generic search would
\* have found: nothing is extracted from the latter.
C22_Witness ==
    /\ Done
    /\ html.elems = <<NearElem, TestIdElem>>
    /\ FirstHit = 6
    /\ eventos = << >>
    /\ stdout = <<EMPTY>>

\* Processing element n raises: it has coordinates and the distance call
\* rejects them.
C23_Fails(n) ==
    /\ n.lat # None /\ n.lon # None
    /\ ~Geodesic(hotel_lat, hotel_lon, n.lat, n.lon).ok

\* The located elements without those whose processing raises.
C23_Others == SelectSeq(Locate(html.elems), LAMBDA n : ~C23_Fails(n))

\* C23: the records extracted are those of the run over the located elements
\* without the ones whose processing raises, and every other located element
\* with coordinates within the radius has its record among them.
C23_SkipOnlyFailing ==
    extracted =>
        /\ eventos = ProcessAll(C23_Others, hotel_lat, hotel_lon, radius_km)
        /\ \A k \in 1..Len(C23_Others) :
               LET n == C23_Others[k]
                   g == Geodesic(hotel_lat, hotel_lon, n.lat, n.lon)
               IN  (n.lat # None /\ n.lon # None /\ FLe(g.km, radius_km)) =>
                       \E j \in 1..Len(eventos) :
                           /\ eventos[j].latitude = n.lat
                           /\ eventos[j].longitude = n.lon

C23_Witness ==
    /\ Done
    /\ html.elems = <<Listing(95000, -117000), NearElem>>
    /\ Len(stdout) = 1 /\ Len(stdout[1]) = 1
    /\ stdout[1][1].latitude = 32677

\* v is a JSON number (not None, not a string).
IsJsonNumber(v) == v \notin {None, JSON_STR_NUMERIC, JSON_STR_TEXT}

\* C24: every record written to standard output has a latitude and a
\* longitude that were found in the linked-data block and are numbers.
C24_NumericCoordinates ==
    \A rec \in Emitted :
        IsJsonNumber(rec.latitude) /\ IsJsonNumber(rec.longitude)

\* The page of the first retrieval has just been validated.
JustValidated == pc \in {"content2", "close_val"}

\* C25: a page of at least 1000 characters that contains "robot" or "bot" and
\* none of "captcha", "access denied", "forbidden", "blocked" passes
\* validation: the run goes on to the final retrieval, not to the rejection.
C25_WeakWordsPass ==
    ( /\ JustValidated
      /\ html.len >= 1000
      /\ ContainsLower(html, "robot") \/ ContainsLower(html, "bot")
      /\ \A w \in {"captcha", "access denied", "forbidden", "blocked"} :
             ~ContainsLower(html, w) )
    => (pc = "content2" /\ validation = "pass")

C25_Witness ==
    /\ pc = "content2"
    /\ validation = "pass"
    /\ html.len >= 1000
    /\ ContainsLower(html, "bot")

\* C26: when the run reaches the serialization of the surviving records,
\* standard output ends up holding either the serialized array or, when
\* json.dumps or json.loads failed, the single line [] and nothing else.
C26_SerializationAllOrNothing ==
    (Done /\ extracted) => (stdout = <<eventos>> \/ stdout = <<EMPTY>>)

C26_Witness ==
    /\ Done
    /\ extracted
    /\ eventos # << >>
    /\ stdout = <<EMPTY>>

\* The query point and the record lie on the 30-degree grid, where the
\* model's sines and cosines are the function's.
OnGrid(rec) ==
    \A x \in {hotel_lat, hotel_lon, rec.latitude, rec.longitude} :
        x < NaN /\ x % 30000 = 0

\* The distance utility's result (in tenths of km) for the query point and
\* the coordinates of rec.
UtilityFor(rec) ==
    calculate_distance(PyFloat(hotel_lat), PyFloat(hotel_lon),
                       PyFloat(rec.latitude), PyFloat(rec.longitude))

\* C27 as stated: the distance attached to every emitted record is the value
\* the haversine utility (Earth radius 6371 km) returns for the query point
\* and the record's coordinates.
C27_FilterIsUtility ==
    \A rec \in Emitted :
        OnGrid(rec) =>
            /\ UtilityFor(rec).raised = "none"
            /\ rec.distance_km = 100 * UtilityFor(rec).value

\* C27, amended: the distance attached to every emitted record is the
\* geodesic distance between the query point and the record's coordinates,
\* rounded to two decimals, and that geodesic distance is within radius_km.
C27_FilterIsGeodesic ==
    \A rec \in Emitted :
        LET g == Geodesic(hotel_lat, hotel_lon, rec.latitude, rec.longitude)
        IN  /\ g.ok
            /\ FLe(g.km, radius_km)
            /\ rec.distance_km = ((g.km + 5) \div 10) * 10

C27_Witness ==
    /\ Done
    /\ \E rec \in Emitted :
           /\ rec.latitude = 32677
           /\ rec.distance_km = 19650
           /\ Geodesic(hotel_lat, hotel_lon, rec.latitude, rec.longitude).km
                  = 19647

\* The markup holds one listing element, whose coordinates resolve to a
\* point within the radius.
OneListingInRange ==
    /\ Len(html.elems) = 1
    /\ html.elems[1].cls = "event-listings-element"
    /\ html.elems[1].lat # None /\ html.elems[1].lon # None
    /\ LET g == Geodesic(hotel_lat, hotel_lon,
                         html.elems[1].lat, html.elems[1].lon)
       IN  g.ok /\ FLe(g.km, radius_km)

\* C28: a listing element whose coordinates resolve within the radius yields
\* a record whether or not it has a name, a venue, a link or a date; the
\* venue of the record is "" when the element has no venue link and its name
\* is "" when the element has no bold element.
C28_MissingFieldsNeverDrop ==
    (extracted /\ OneListingInRange) =>
        /\ Len(eventos) = 1
        /\ ~html.elems[1].venue.has => eventos[1].lugar = ""
        /\ ~html.elems[1].strong.has => eventos[1].nombre = ""

C28_Witness ==
    /\ Done
    /\ OneListingInRange
    /\ ~html.elems[1].venue.has /\ ~html.elems[1].strong.has
    /\ ~html.elems[1].href.has
    /\ ~html.elems[1].hasTime /\ ~html.elems[1].title.has
    /\ stdout = << <<[nombre |-> "", fecha |-> "", lugar |-> "", enlace |-> "",
                     latitude |-> 32677, longitude |-> -117000,
                     distance_km |-> 19650]>> >>

\* s starts with p.
StartsWith(s, p) == Len(s) >= Len(p) /\ SubSeq(s, 1, Len(p)) = p

\* s holds "://" somewhere after its first character.
RECURSIVE SchemeAfter(_, _)
SchemeAfter(s, k) ==
    /\ k + 2 <= Len(s)
    /\ \/ SubSeq(s, k, k + 2) = "://"
       \/ SchemeAfter(s, k + 1)

\* A well-formed absolute URL of the site: the scheme and host once, then a
\* path.
IsAbsoluteUrl(s) ==
    /\ StartsWith(s, "https://www.songkick.com/")
    /\ ~SchemeAfter(s, Len("https://"))

\* C29: the link of every emitted record is the empty string or a well-formed
\* absolute URL, whether the href of the element was a relative path or
\* already an absolute URL.
C29_LinkEmptyOrAbsolute ==
    \A rec \in Emitted : rec.enlace = "" \/ IsAbsoluteUrl(rec.enlace)

\* f is s cut to its first 10 characters (s itself when it has no more).
IsCutOf(f, s) ==
    /\ Len(f) = (IF Len(s) > 10 THEN 10 ELSE Len(s))
    /\ f = SubSeq(s, 1, Len(f))

\* C30: the date of a record is the datetime attribute of the element's time
\* descendant when there is one and it has the attribute; otherwise the
\* element's title attribute; otherwise empty; in each case cut to its first
\* 10 characters.
C30_DatePrecedence ==
    (extracted /\ OneListingInRange) =>
        LET li == html.elems[1]
            fecha == eventos[1].fecha
        IN  /\ Len(eventos) = 1
            /\ (li.hasTime /\ li.datetime.has) => IsCutOf(fecha, li.datetime.v)
            /\ (~(li.hasTime /\ li.datetime.has) /\ li.title.has)
                   => IsCutOf(fecha, li.title.v)
            /\ (~(li.hasTime /\ li.datetime.has) /\ ~li.title.has)
                   => fecha = ""

C30_Witness ==
    /\ Done
    /\ OneListingInRange
    /\ html.elems[1].hasTime /\ ~html.elems[1].datetime.has
    /\ html.elems[1].title = Attr("Sat 17 May 2024")
    /\ \E rec \in Emitted : rec.fecha = "Sat 17 May"

====
